---- MODULE Spec2Model ----
(***************************************************************************)
(* A model of the two Terrain notebooks of cyverse/terrain-notebook:       *)
(*   terrain-intro.ipynb        (nb = "intro")                             *)
(*   the automation notebook    (nb = "auto", src/unnamed/part_000)        *)
(* A notebook is run top to bottom, one code cell after the other; a cell  *)
(* that raises stops the run (pc = "halted").  Each HTTP call is one       *)
(* request to the Terrain service and its response; the service is the     *)
(* environment and answers nondeterministically within its wire contract.  *)
(***************************************************************************)
EXTENDS Integers, Sequences, FiniteSets, TLC

\* ------------------------------------------------------------------ bounds
\* Longest app list a search response carries.
MaxApps == 2
\* Most parameters in the first parameter group of an app description.
MaxParams == 3
\* Most files the directory listing returns.
MaxFiles == 9
\* The analyses the user's account holds from earlier sessions, when it holds
\* any.
MaxPrior == 4

\* ------------------------------------------------------- program constants
\* paths[:8]: the path list file holds at most this many paths.
PathListLimit == 8

\* --------------------------------------------------------------- values
Unset == "<unset>"
Notebooks == {"intro", "auto"}
Usernames == {"alice"}
Passwords == {"right", "wrong"}
Tokens == {"tokA", "tokB"}
\* The statuses a response can carry: success, rejected token or
\* credentials, server error.
FailStatuses == {401, 500}

NoHeaders == [Authorization |-> <<>>]
\* "Bearer " + token
Bearer(t) == <<"Bearer", t>>

NoApp == [id |-> Unset, system_id |-> Unset, name |-> Unset]
\* The app catalog of the service: one app carries the searched name exactly,
\* another, on the other system, a longer name that matches the search too.
Catalog ==
  { [id |-> "app1", system_id |-> "de", name |-> "wanted"],
    [id |-> "app2", system_id |-> "agave", name |-> "wanted-other"] }

Labels == {"Text to match", "Input File", "Output File Name"}
\* A parameter id: the group and the place in the group of its parameter.
NoId == <<>>

\* Faulty variant: a value is listed twice.
ErrorRatesRepeated == <<"0.01", "0.01", "0.03", "0.04">>

\* The sweep's values: for error_rate in ["0.01", "0.02", "0.03", "0.04"]
ErrorRates == <<"0.01", "0.02", "0.03", "0.04">>

\* ---------------------------------------------------------- sequences
SeqsUpTo(S, n) == UNION { [1..k -> S] : k \in 0..n }
InjSeqsUpTo(S, n) ==
  { s \in SeqsUpTo(S, n) : \A i, j \in 1..Len(s) : i # j => s[i] # s[j] }
Range(s) == { s[i] : i \in 1..Len(s) }
\* s[:n]
Take(s, n) == SubSeq(s, 1, IF Len(s) < n THEN Len(s) ELSE n)

\* ------------------------------------------------------------ responses
\* A response: its status and the JSON body; keys names the keys the body
\* has, so that reading a key the body lacks is a KeyError.
NoAnalysis ==
  [id |-> 0, app_id |-> Unset, system_id |-> Unset, status |-> Unset,
   parent_id |-> 0, interactive_urls |-> <<>>]
EmptyBody ==
  [keys |-> {}, access_token |-> Unset, apps |-> <<>>, groups |-> <<>>,
   versions |-> <<>>, id |-> 0, analyses |-> <<>>, files |-> <<>>,
   status |-> Unset]
NoResponse == [status_code |-> 0, json |-> EmptyBody]
\* The body of a failed call: {"error_code": ..., "reason": ...}
ErrorBody == [EmptyBody EXCEPT !.keys = {"error_code", "reason"}]
Response(st, body) == [status_code |-> st, json |-> body]

\* r.raise_for_status(): raises HTTPError for a 4xx or 5xx status.
RaisesForStatus(resp) == resp.status_code >= 400 /\ resp.status_code < 600
\* The HTTPError it raises tells the status: "<status> Client Error: ..." for
\* a 4xx status, "<status> Server Error: ..." for a 5xx status.
HttpErrorMessage(resp) ==
  IF resp.status_code = 401 THEN "401 Client Error"
  ELSE IF resp.status_code = 500 THEN "500 Server Error"
  ELSE IF resp.status_code < 500 THEN "Client Error" ELSE "Server Error"


\* ------------------------------------------------------------- requests
\* A JSON value of a request: text is a tuple of string pieces (a + b is the
\* pieces of a followed by those of b), list tells a one-element list [v]
\* from the plain value v.
Text(pieces) == [list |-> FALSE, v |-> pieces]
ListOf(pieces) == [list |-> TRUE, v |-> pieces]
\* "/iplant/home/" + username + "/analyses"
OutputDir(user) == <<"/iplant/home/", user, "/analyses">>
\* "/iplant/home/" + username + "/terrain-automation-paths.htpl"
PathListFile(user) == <<"/iplant/home/", user, "/terrain-automation-paths.htpl">>

\* A dict literal {k1: v1, k2: v2, ...}: a later entry replaces an earlier one
\* with the same key.
RECURSIVE DictOf(_)
DictOf(pairs) ==
  IF pairs = <<>> THEN {}
  ELSE LET n == Len(pairs)
           last == pairs[n]
       IN { e \in DictOf(SubSeq(pairs, 1, n - 1)) : e[1] # last[1] } \cup {last}
DictKeys(d) == { e[1] : e \in d }

\* One entry of "requirements"; memory and disk are counted in GiB (2 ** 30
\* bytes), 0 stands for a key the entry does not have.
Requirement(keys, cpuMin, cpuMax, mem, disk, step) ==
  [keys |-> keys, min_cpu_cores |-> cpuMin, max_cpu_cores |-> cpuMax,
   min_memory_limit |-> mem, min_disk_space |-> disk, step_number |-> step]

NoBody ==
  [keys |-> {}, config |-> {}, name |-> <<>>, app_id |-> Unset,
   app_version_id |-> Unset, system_id |-> Unset, debug |-> FALSE,
   output_dir |-> <<>>, notify |-> FALSE, requirements |-> <<>>,
   content |-> [header |-> "", lines |-> <<>>], dest |-> <<>>]

\* ------------------------------------------------------------- state
VARIABLES
  nb,          \* the notebook that is run
  pc,          \* the code cell (or step of it) to run next
  err,         \* the exception that stopped the run
  g,           \* the kernel's global variables
  issued,      \* service: the access tokens it has issued
  analyses,    \* service: the analyses of the user, most recent first
  files,       \* service: the files in the user's home directory
  reqLog,      \* every HTTP request sent, in order, with the status it got
  calls,       \* every operation the notebook invoked, in order
  bodyReads,   \* the responses whose body was read: (cell, status)
  inflight     \* the requests sent and not yet answered

vars == <<nb, pc, err, g, issued, analyses, files, reqLog, calls, bodyReads,
          inflight>>
service == <<issued, analyses, files>>

NoError == [type |-> "none", msg |-> "", at |-> ""]

Globals0 ==
  [username |-> Unset, password |-> Unset, token |-> Unset,
   auth_headers |-> NoHeaders, r |-> NoResponse, app |-> NoApp,
   app_listing |-> NoApp, system_id |-> Unset, app_id |-> Unset,
   app_version_id |-> Unset, parameter_id |-> NoId, regex_id |-> NoId,
   input_id |-> NoId, output_id |-> NoId, read_1_id |-> NoId,
   read_2_id |-> NoId, error_rate_id |-> NoId, request_body |-> NoBody,
   analysis_id |-> 0, interactive_url |-> Unset, paths |-> <<>>,
   path_list_file |-> <<>>, error_rate |-> Unset, sweep_i |-> 0]

FirstCell(n) == IF n = "intro" THEN "i_welcome" ELSE "prompt"

\* The analyses of earlier sessions, most recent first; all have ended.
PriorAnalyses(n) ==
  [i \in 1..n |->
     [id |-> n + 1 - i, app_id |-> "app1", system_id |-> "de",
      status |-> "Completed", parent_id |-> 0, interactive_urls |-> <<>>]]

\* A fresh kernel; the user's home directory may already hold a file with the
\* path list file's name, and the account analyses of earlier sessions.
Init ==
  /\ nb \in Notebooks
  /\ pc = FirstCell(nb)
  /\ err = NoError
  /\ g = Globals0
  /\ issued = {}
  /\ analyses \in {<<>>} \cup
       (IF nb = "intro" THEN {PriorAnalyses(MaxPrior)} ELSE {})
  /\ files \in {{}} \cup
       (IF nb = "auto" THEN { {PathListFile(u)} : u \in Usernames } ELSE {})
  /\ reqLog = <<>>
  /\ calls = <<>>
  /\ bodyReads = {}
  /\ inflight = {}

\* ------------------------------------------------------- control flow
Goto(next) == pc' = next /\ err' = err
\* An exception leaves the cell and stops the run.
Raise(type, msg) ==
  /\ pc' = "halted"
  /\ err' = [type |-> type, msg |-> msg, at |-> pc]

\* What a request carries besides its headers: basic-auth credentials, the
\* path or query values, the analysis filter, the limit and the JSON body.
NoArgs ==
  [auth |-> <<>>, target |-> <<>>, field |-> "", aid |-> 0, limit |-> 0,
   body |-> NoBody]
\* One HTTP request and the status of its response (0: not yet answered).
Request(op, headers, args, status) ==
  [op |-> op, headers |-> headers, auth |-> args.auth,
   target |-> args.target, field |-> args.field, aid |-> args.aid,
   limit |-> args.limit, body |-> args.body, status |-> status]
\* requests.get / requests.post: one request is sent and the call returns
\* when its response has arrived.
Http(op, headers, args, resp) ==
  /\ reqLog' = Append(reqLog, Request(op, headers, args, resp.status_code))
  /\ calls' = Append(calls, op)
NoHttp == UNCHANGED <<reqLog, calls>>
\* r.json() (or r.text) is evaluated on the responses of S.
ReadsBodies(S) ==
  bodyReads' = bodyReads \cup
    { [at |-> pc, status |-> x.status_code, id |-> x.json.id] : x \in S }
ReadsBody(resp) == ReadsBodies({resp})
NoBodyRead == UNCHANGED bodyReads

\* ------------------------------------------------------- the service
Authorized(h) ==
  /\ h.Authorization # <<>>
  /\ h.Authorization[1] = "Bearer"
  /\ h.Authorization[2] \in issued
\* A failed call: a rejected token, or a server error for an accepted one.
Failures(h) ==
  { Response(s, ErrorBody) :
      s \in IF Authorized(h) THEN FailStatuses ELSE {401} }
Ok(keys, body) == Response(200, [body EXCEPT !.keys = keys])
Succeeded(resp) == resp.status_code = 200

\* GET /token/keycloak with HTTP basic authentication.
TokenResponses(user, pw) ==
  IF pw = "right"
  THEN { Ok({"access_token", "expires_in"}, [EmptyBody EXCEPT !.access_token = t]) :
           t \in Tokens } \cup {Response(500, ErrorBody)}
  ELSE {Response(401, ErrorBody)}

\* GET /apps?search=<term>: the matching apps, in the service's order.
SearchResponses(h) ==
  IF Authorized(h)
  THEN { Ok({"apps", "total"}, [EmptyBody EXCEPT !.apps = s]) :
           s \in InjSeqsUpTo(Catalog, MaxApps) } \cup Failures(h)
  ELSE Failures(h)


\* The parameters of one group, given the labels they carry.
ParamsOf(grp, labels) ==
  [k \in 1..Len(labels) |-> [id |-> <<grp, k>>, label |-> labels[k]]]
\* "groups" of an app description: no group, one group, or two groups the
\* second of which holds one parameter.
GroupLists ==
  {<<>>}
  \cup { <<ParamsOf(1, ls)>> : ls \in SeqsUpTo(Labels, MaxParams) }
  \cup { <<ParamsOf(1, ls), ParamsOf(2, <<l>>)>> :
           ls \in SeqsUpTo(Labels, MaxParams), l \in Labels }
\* The same without the labels, for a flow that reads none.
PlainGroupLists ==
  { gl \in GroupLists :
      \A i \in 1..Len(gl) : \A k \in 1..Len(gl[i]) :
        gl[i][k].label = "Input File" }
\* The number of steps the description of an app declares; the tool of each
\* step may have its own entry in "requirements".  The apps of the catalog
\* have one step each, as interactive apps always do.
StepCount(app_id) == IF app_id \in { a.id : a \in Catalog } THEN 1 ELSE 0
\* "versions" of an app description.
VersionLists ==
  InjSeqsUpTo({ [version |-> "4.0.1", version_id |-> "ver401"],
                [version |-> "3.0", version_id |-> "ver30"] }, 2)

\* GET /apps/{system_id}/{app_id}[/versions/{version_id}]: the app
\* description; groupsSet and versionsSet are the values its "groups" and
\* "versions" can take.
DetailResponses(h, groupsSet, versionsSet) ==
  IF Authorized(h)
  THEN { Ok({"groups", "versions", "id", "name", "system_id"},
            [EmptyBody EXCEPT !.groups = gs, !.versions = vs]) :
           gs \in groupsSet, vs \in versionsSet } \cup Failures(h)
  ELSE Failures(h)

\* POST /analyses: an accepted submission creates one analysis and returns
\* its id; a failed one creates nothing.
NewAnalysis(body) ==
  [id |-> Len(analyses) + 1, app_id |-> body.app_id,
   system_id |-> body.system_id, status |-> "Submitted", parent_id |-> 0,
   interactive_urls |-> <<>>]
SubmitResponses(h, body) ==
  IF Authorized(h)
  THEN { Ok({"id", "name", "status", "start-date"},
            [EmptyBody EXCEPT !.id = NewAnalysis(body).id,
                              !.status = "Submitted"]) } \cup Failures(h)
  ELSE Failures(h)
\* Faulty variant: a submission that is answered with a failure has created its
\* analysis all the same.
AnalysesAfterSubmitAlways(resp, body) == <<NewAnalysis(body)>> \o analyses

AnalysesAfterSubmit(resp, body) ==
  IF Succeeded(resp) THEN <<NewAnalysis(body)>> \o analyses
  ELSE analyses

\* GET /analyses?filter=[{"field": f, "value": v}]&limit=n: the analyses that
\* match, most recent first, at most n of them (n = 0: no limit).  An
\* interactive analysis has its URL once it is running.
Matching(field, value) ==
  IF field = "id" THEN SelectSeq(analyses, LAMBDA a : a.id = value)
  ELSE IF field = "parent_id"
       THEN SelectSeq(analyses, LAMBDA a : a.parent_id = value)
       ELSE analyses
Limited(s, limit) == IF limit = 0 THEN s ELSE Take(s, limit)
ListResponses(h, field, value, limit) ==
  IF Authorized(h)
  THEN { Ok({"analyses", "timestamp", "total"},
            [EmptyBody EXCEPT !.analyses =
               LET l == Limited(Matching(field, value), limit)
               IN [i \in 1..Len(l) |-> [l[i] EXCEPT !.interactive_urls = u]]]) :
           u \in {<<>>, <<"url">>} } \cup Failures(h)
  ELSE Failures(h)

\* POST /analyses/{id}/stop
StopResponses(h, id) ==
  IF Authorized(h) /\ \E i \in 1..Len(analyses) : analyses[i].id = id
  THEN { Ok({"id"}, [EmptyBody EXCEPT !.id = id]) } \cup Failures(h)
  ELSE Failures(h)
AnalysesAfterStop(resp, id) ==
  IF Succeeded(resp)
  THEN [i \in 1..Len(analyses) |->
          IF analyses[i].id = id
          THEN [analyses[i] EXCEPT !.status = "Canceled"]
          ELSE analyses[i]]
  ELSE analyses

\* GET /filesystem/paged-directory: the files of the directory (none, one or
\* MaxFiles of them); a path is told by its place in the listing.
DirResponses(h) ==
  IF Authorized(h)
  THEN { Ok({"files", "folders", "total"},
            [EmptyBody EXCEPT !.files = [i \in 1..n |-> [path |-> i]]]) :
           n \in {0, 1, MaxFiles} } \cup Failures(h)
  ELSE Failures(h)

\* POST /fileio/saveas: fails when a file exists at dest.
SaveResponses(h, body) ==
  IF Authorized(h) /\ body.dest \notin files
  THEN { Ok({"file"}, EmptyBody) } \cup Failures(h)
  ELSE Failures(h) \cup {Response(500, ErrorBody)}
FilesAfterSave(resp, body) ==
  IF Succeeded(resp) THEN files \cup {body.dest} ELSE files


\* ------------------------------------------------- cells of both notebooks
\* r.raise_for_status() followed by a read of r.json() (or r.text); before
\* holds the responses the cell read to build the request.
\* Faulty variant: a rejected token is raised as an error of its own type.
CheckThenReadTyped(resp, next, before) ==
  IF RaisesForStatus(resp)
  THEN /\ Raise(IF resp.status_code = 401 THEN "AuthenticationError"
                ELSE "HTTPError", HttpErrorMessage(resp))
       /\ ReadsBodies(before)
  ELSE Goto(next) /\ ReadsBodies(before \cup {resp})

CheckThenRead(resp, next, before) ==
  IF RaisesForStatus(resp)
  THEN Raise("HTTPError", HttpErrorMessage(resp)) /\ ReadsBodies(before)
  ELSE Goto(next) /\ ReadsBodies(before \cup {resp})

\* username = input(); password = getpass.getpass()
Prompt ==
  /\ pc = "prompt"
  /\ \E u \in Usernames, p \in Passwords :
       g' = [g EXCEPT !.username = u, !.password = p]
  /\ Goto("token")
  /\ NoHttp /\ NoBodyRead
  /\ UNCHANGED <<nb, service, inflight>>

\* Faulty variant: the header is built with the wrong scheme.
AuthHeadersBasic(token) == [Authorization |-> <<"Basic", token>>]

\* auth_headers = {"Authorization": "Bearer " + token}
AuthHeaders(token) == [Authorization |-> Bearer(token)]

\* Faulty variant: the token exchange without its status check.
TokenIgnoringStatus ==
  /\ pc = "token"
  /\ \E resp \in TokenResponses(g.username, g.password) :
       /\ Http("token", NoHeaders,
               [NoArgs EXCEPT !.auth = <<g.username, g.password>>], resp)
       /\ g' = [g EXCEPT !.r = resp,
                         !.token = resp.json.access_token,
                         !.auth_headers = [Authorization |->
                                             Bearer(resp.json.access_token)]]
       /\ issued' = IF Succeeded(resp)
                    THEN issued \cup {resp.json.access_token} ELSE issued
       /\ ReadsBody(resp)
       /\ Goto(IF nb = "intro" THEN "i_search" ELSE "v_search")
  /\ UNCHANGED <<nb, analyses, files, inflight>>

\* r = requests.get(".../token/keycloak", auth=(username, password))
\* r.raise_for_status(); token = r.json()['access_token']; auth_headers = ...
Token ==
  /\ pc = "token"
  /\ \E resp \in TokenResponses(g.username, g.password) :
       /\ Http("token", NoHeaders,
               [NoArgs EXCEPT !.auth = <<g.username, g.password>>], resp)
       /\ IF RaisesForStatus(resp)
          THEN /\ g' = [g EXCEPT !.r = resp]
               /\ Raise("HTTPError", HttpErrorMessage(resp))
               /\ NoBodyRead
               /\ UNCHANGED issued
          ELSE /\ g' = [g EXCEPT !.r = resp,
                                 !.token = resp.json.access_token,
                                 !.auth_headers = AuthHeaders(resp.json.access_token)]
               /\ issued' = issued \cup {resp.json.access_token}
               /\ ReadsBody(resp)
               /\ Goto(IF nb = "intro" THEN "i_search" ELSE "v_search")
  /\ UNCHANGED <<nb, analyses, files, inflight>>

\* Faulty variant: the search sends the credentials along.
SearchCellBasicAuth(next) ==
  /\ \E resp \in SearchResponses(g.auth_headers) :
       /\ Http("search", g.auth_headers,
               [NoArgs EXCEPT !.target = <<"wanted">>,
                              !.auth = <<g.username, g.password>>], resp)
       /\ g' = [g EXCEPT !.r = resp]
       /\ CheckThenRead(resp, next, {})
  /\ UNCHANGED <<nb, service, inflight>>

\* query_params = {"search": ...}; r = requests.get(".../apps", ...)
\* r.raise_for_status(); pprint.pprint(r.json())
SearchCell(next) ==
  /\ \E resp \in SearchResponses(g.auth_headers) :
       /\ Http("search", g.auth_headers,
               [NoArgs EXCEPT !.target = <<"wanted">>], resp)
       /\ g' = [g EXCEPT !.r = resp]
       /\ CheckThenRead(resp, next, {})
  /\ UNCHANGED <<nb, service, inflight>>

\* Faulty variant: the system id is read from the last entry.
PickFirstMixed(base, resp, next) ==
  /\ ReadsBody(resp)
  /\ IF "apps" \notin resp.json.keys
     THEN Raise("KeyError", "apps") /\ g' = base
     ELSE IF resp.json.apps = <<>>
          THEN Raise("IndexError", "list index out of range") /\ g' = base
          ELSE /\ g' = [base EXCEPT
                         !.app_listing = resp.json.apps[1],
                         !.system_id =
                            resp.json.apps[Len(resp.json.apps)].system_id,
                         !.app_id = resp.json.apps[1].id]
               /\ Goto(next)

\* app_listing = r.json()["apps"][0]
\* system_id = app_listing["system_id"]; app_id = app_listing["id"]
PickFirst(base, resp, next) ==
  /\ ReadsBody(resp)
  /\ IF "apps" \notin resp.json.keys
     THEN Raise("KeyError", "apps") /\ g' = base
     ELSE IF resp.json.apps = <<>>
          THEN Raise("IndexError", "list index out of range") /\ g' = base
          ELSE /\ g' = [base EXCEPT !.app_listing = resp.json.apps[1],
                                    !.system_id = resp.json.apps[1].system_id,
                                    !.app_id = resp.json.apps[1].id]
               /\ Goto(next)
PickCell(next) ==
  /\ PickFirst(g, g.r, next)
  /\ NoHttp
  /\ UNCHANGED <<nb, service, inflight>>

\* url = ".../apps/{0}/{1}".format(system_id, app_id)
\* r = requests.get(url, headers=auth_headers); r.raise_for_status()
\* pprint.pprint(r.json())
DetailCell(next, groupsSet) ==
  /\ \E resp \in DetailResponses(g.auth_headers, groupsSet, {<<>>}) :
       /\ Http("detail", g.auth_headers,
               [NoArgs EXCEPT !.target = <<g.system_id, g.app_id>>], resp)
       /\ g' = [g EXCEPT !.r = resp]
       /\ CheckThenRead(resp, next, {})
  /\ UNCHANGED <<nb, service, inflight>>

\* Faulty variant: the id is a constant, not read from the description.
ParamCellConstant(next) ==
  /\ ReadsBody(g.r)
  /\ g' = [g EXCEPT !.parameter_id = <<2, 1>>]
  /\ Goto(next)
  /\ NoHttp
  /\ UNCHANGED <<nb, service, inflight>>

\* parameter_id = r.json()["groups"][0]["parameters"][0]["id"]
ParamCell(next) ==
  /\ ReadsBody(g.r)
  /\ IF g.r.json.groups = <<>> \/ g.r.json.groups[1] = <<>>
     THEN Raise("IndexError", "list index out of range") /\ UNCHANGED g
     ELSE /\ g' = [g EXCEPT !.parameter_id = g.r.json.groups[1][1].id]
          /\ Goto(next)
  /\ NoHttp
  /\ UNCHANGED <<nb, service, inflight>>

\* Faulty variant: building the body already posts it.
BodyCellSending(body, next) ==
  /\ g' = [g EXCEPT !.request_body = body]
  /\ Goto(next)
  /\ Http("submit", g.auth_headers, [NoArgs EXCEPT !.body = body],
          Response(500, ErrorBody))
  /\ NoBodyRead
  /\ UNCHANGED <<nb, service, inflight>>

\* A cell that assigns request_body and prints it.
BodyCell(body, next) ==
  /\ g' = [g EXCEPT !.request_body = body]
  /\ Goto(next)
  /\ NoHttp /\ NoBodyRead
  /\ UNCHANGED <<nb, service, inflight>>

\* Faulty variant: a failed submission is sent a second time.
SubmitCellRetrying(next) ==
  /\ \E resp \in SubmitResponses(g.auth_headers, g.request_body) :
       /\ IF RaisesForStatus(resp)
          THEN reqLog' = reqLog \o
                 << Request("submit", g.auth_headers,
                            [NoArgs EXCEPT !.body = g.request_body],
                            resp.status_code),
                    Request("submit", g.auth_headers,
                            [NoArgs EXCEPT !.body = g.request_body],
                            resp.status_code) >>
          ELSE reqLog' = Append(reqLog,
                 Request("submit", g.auth_headers,
                         [NoArgs EXCEPT !.body = g.request_body],
                         resp.status_code))
       /\ calls' = Append(calls, "submit")
       /\ analyses' = AnalysesAfterSubmit(resp, g.request_body)
       /\ g' = [g EXCEPT !.r = resp]
       /\ CheckThenRead(resp, next, {})
  /\ UNCHANGED <<nb, issued, files, inflight>>

\* r = requests.post(".../analyses", headers=auth_headers, json=request_body)
\* r.raise_for_status(); pprint.pprint(r.json())
SubmitCell(next) ==
  /\ \E resp \in SubmitResponses(g.auth_headers, g.request_body) :
       /\ Http("submit", g.auth_headers,
               [NoArgs EXCEPT !.body = g.request_body], resp)
       /\ analyses' = AnalysesAfterSubmit(resp, g.request_body)
       /\ g' = [g EXCEPT !.r = resp]
       /\ CheckThenRead(resp, next, {})
  /\ UNCHANGED <<nb, issued, files, inflight>>

\* Faulty variant: a listing that was rejected fetches a new token.
ListCellRefreshing(field, value, limit, next, before) ==
  /\ \E resp \in ListResponses(g.auth_headers, field, value, limit) :
       /\ Http("list", g.auth_headers,
               [NoArgs EXCEPT !.field = field, !.aid = value,
                              !.limit = limit], resp)
       /\ IF resp.status_code = 401
          THEN \E t \in Tokens :
                 g' = [g EXCEPT !.r = resp, !.token = t,
                                !.auth_headers = [Authorization |-> Bearer(t)]]
          ELSE g' = [g EXCEPT !.r = resp]
       /\ CheckThenRead(resp, next, before)
  /\ UNCHANGED <<nb, service, inflight>>

\* r = requests.get(".../analyses", headers=auth_headers, params=...)
\* r.raise_for_status(); pprint.pprint(r.json())
ListCell(field, value, limit, next, before) ==
  /\ \E resp \in ListResponses(g.auth_headers, field, value, limit) :
       /\ Http("list", g.auth_headers,
               [NoArgs EXCEPT !.field = field, !.aid = value,
                              !.limit = limit], resp)
       /\ g' = [g EXCEPT !.r = resp]
       /\ CheckThenRead(resp, next, before)
  /\ UNCHANGED <<nb, service, inflight>>


\* A submission request body with the keys every flow gives it.
BaseKeys ==
  {"config", "name", "app_id", "system_id", "debug", "output_dir", "notify"}
\* Faulty variant: the ids of the app and of its system change places.
SubmissionSwapped(keys, config, name) ==
  [NoBody EXCEPT !.keys = keys, !.config = config, !.name = name,
                 !.app_id = g.system_id, !.system_id = g.app_id,
                 !.debug = FALSE, !.output_dir = OutputDir(g.username),
                 !.notify = TRUE]

Submission(keys, config, name) ==
  [NoBody EXCEPT !.keys = keys, !.config = config, !.name = name,
                 !.app_id = g.app_id, !.system_id = g.system_id,
                 !.debug = FALSE, !.output_dir = OutputDir(g.username),
                 !.notify = TRUE]

\* ------------------------------------------- terrain-intro.ipynb: VICE app
\* r = requests.get("https://de.cyverse.org/terrain/"); r.raise_for_status()
\* print(r.text)
I_Welcome ==
  /\ pc = "i_welcome"
  /\ \E resp \in {Ok({}, EmptyBody), Response(500, ErrorBody)} :
       /\ Http("welcome", NoHeaders, NoArgs, resp)
       /\ g' = [g EXCEPT !.r = resp]
       /\ CheckThenRead(resp, "prompt", {})
  /\ UNCHANGED <<nb, service, inflight>>

I_Search == pc = "i_search" /\ SearchCell("i_filter")

\* Faulty variant: the cell takes the first app of the search result.
I_FilterFirst ==
  /\ pc = "i_filter"
  /\ ReadsBody(g.r)
  /\ IF g.r.json.apps = <<>>
     THEN Raise("IndexError", "list index out of range") /\ UNCHANGED g
     ELSE g' = [g EXCEPT !.app = g.r.json.apps[1]] /\ Goto("i_detail")
  /\ NoHttp
  /\ UNCHANGED <<nb, service, inflight>>

\* app = [ a for a in r.json()['apps'] if a['name'] == 'JupyterLab Datascience' ][0]
I_Filter ==
  /\ pc = "i_filter"
  /\ ReadsBody(g.r)
  /\ LET m == SelectSeq(g.r.json.apps, LAMBDA a : a.name = "wanted")
     IN IF m = <<>>
        THEN Raise("IndexError", "list index out of range") /\ UNCHANGED g
        ELSE g' = [g EXCEPT !.app = m[1]] /\ Goto("i_detail")
  /\ NoHttp
  /\ UNCHANGED <<nb, service, inflight>>

\* system_id = app["system_id"]; app_id = app["id"]; GET the app description
I_Detail ==
  /\ pc = "i_detail"
  /\ \E resp \in DetailResponses(g.auth_headers, {<<>>}, VersionLists) :
       /\ Http("detail", g.auth_headers,
               [NoArgs EXCEPT !.target = <<g.app.system_id, g.app.id>>], resp)
       /\ g' = [g EXCEPT !.system_id = g.app.system_id, !.app_id = g.app.id,
                         !.r = resp]
       /\ CheckThenRead(resp, "i_version", {})
  /\ UNCHANGED <<nb, service, inflight>>

\* app_version_id = [ v["version_id"] for v in r.json()["versions"]
\*                    if v["version"] == "4.0.1" ][0]
I_Version ==
  /\ pc = "i_version"
  /\ ReadsBody(g.r)
  /\ LET m == SelectSeq(g.r.json.versions, LAMBDA v : v.version = "4.0.1")
     IN IF m = <<>>
        THEN Raise("IndexError", "list index out of range") /\ UNCHANGED g
        ELSE g' = [g EXCEPT !.app_version_id = m[1].version_id]
             /\ Goto("i_vdetail")
  /\ NoHttp
  /\ UNCHANGED <<nb, service, inflight>>

\* GET /apps/{system_id}/{app_id}/versions/{app_version_id}
I_VersionDetail ==
  /\ pc = "i_vdetail"
  /\ \E resp \in DetailResponses(g.auth_headers, {<<>>}, {<<>>}) :
       /\ Http("version_detail", g.auth_headers,
               [NoArgs EXCEPT !.target =
                  <<g.system_id, g.app_id, g.app_version_id>>], resp)
       /\ g' = [g EXCEPT !.r = resp]
       /\ CheckThenRead(resp, "i_body", {})
  /\ UNCHANGED <<nb, service, inflight>>

\* Faulty variant: the only entry of requirements is numbered 1.
ViceBodyStepOne ==
  [Submission(BaseKeys \cup {"app_version_id", "requirements"}, {},
              <<"Example VICE Analysis">>)
     EXCEPT !.app_version_id = g.app_version_id,
            !.requirements =
              << Requirement({"min_cpu_cores", "max_cpu_cores",
                              "min_memory_limit", "min_disk_space",
                              "step_number"}, 1, 1, 2, 8, 1) >>]

\* request_body of the VICE analysis
ViceBody ==
  [Submission(BaseKeys \cup {"app_version_id", "requirements"}, {},
              <<"Example VICE Analysis">>)
     EXCEPT !.app_version_id = g.app_version_id,
            !.requirements =
              << Requirement({"min_cpu_cores", "max_cpu_cores",
                              "min_memory_limit", "min_disk_space",
                              "step_number"}, 1, 1, 2, 8, 0) >>]
I_Body == pc = "i_body" /\ BodyCell(ViceBody, "i_submit")

I_Submit == pc = "i_submit" /\ SubmitCell("i_id")

\* analysis_id = r.json()["id"]
I_AnalysisId ==
  /\ pc = "i_id"
  /\ ReadsBody(g.r)
  /\ g' = [g EXCEPT !.analysis_id = g.r.json.id]
  /\ Goto("i_list")
  /\ NoHttp
  /\ UNCHANGED <<nb, service, inflight>>

\* analysis_filters = json.dumps([{"field": "id", "value": analysis_id}])
I_List == pc = "i_list" /\ ListCell("id", g.analysis_id, 0, "i_url", {})

\* interactive_url = r.json()["analyses"][0]["interactive_urls"][0]
I_Url ==
  /\ pc = "i_url"
  /\ ReadsBody(g.r)
  /\ IF g.r.json.analyses = <<>>
        \/ g.r.json.analyses[1].interactive_urls = <<>>
     THEN Raise("IndexError", "list index out of range") /\ UNCHANGED g
     ELSE /\ g' = [g EXCEPT !.interactive_url =
                      g.r.json.analyses[1].interactive_urls[1]]
          /\ Goto("i_stop")
  /\ NoHttp
  /\ UNCHANGED <<nb, service, inflight>>

\* Faulty variant: the cell stops the analysis numbered before the session's.
I_StopPrevious ==
  /\ pc = "i_stop"
  /\ \E resp \in StopResponses(g.auth_headers, g.analysis_id - 1) :
       /\ Http("stop", g.auth_headers,
               [NoArgs EXCEPT !.aid = g.analysis_id - 1], resp)
       /\ analyses' = AnalysesAfterStop(resp, g.analysis_id - 1)
       /\ g' = [g EXCEPT !.r = resp]
       /\ CheckThenRead(resp, "x_search", {})
  /\ UNCHANGED <<nb, issued, files, inflight>>

\* url = ".../analyses/{0}/stop".format(analysis_id); r = requests.post(url, ...)
I_Stop ==
  /\ pc = "i_stop"
  /\ \E resp \in StopResponses(g.auth_headers, g.analysis_id) :
       /\ Http("stop", g.auth_headers,
               [NoArgs EXCEPT !.aid = g.analysis_id], resp)
       /\ analyses' = AnalysesAfterStop(resp, g.analysis_id)
       /\ g' = [g EXCEPT !.r = resp]
       /\ CheckThenRead(resp, "x_search", {})
  /\ UNCHANGED <<nb, issued, files, inflight>>

\* ------------------------------------- terrain-intro.ipynb: executable app
X_Search == pc = "x_search" /\ SearchCell("x_pick")
X_Pick == pc = "x_pick" /\ PickCell("x_detail")
X_Detail == pc = "x_detail" /\ DetailCell("x_param", GroupLists)
X_Param == pc = "x_param" /\ ParamCell("x_body")
\* Faulty variant: the body carries the version id the session still holds.
WordCountBodyVersioned ==
  [Submission(BaseKeys \cup {"app_version_id"},
              DictOf(<< <<g.parameter_id, Text(<<"essay.txt">>)>> >>),
              <<"essay-word-count">>)
     EXCEPT !.app_version_id = g.app_version_id]

\* request_body of the word count analysis
WordCountBody ==
  Submission(BaseKeys,
             DictOf(<< <<g.parameter_id, Text(<<"essay.txt">>)>> >>),
             <<"essay-word-count">>)
X_Body == pc = "x_body" /\ BodyCell(WordCountBody, "x_submit")
X_Submit == pc = "x_submit" /\ SubmitCell("x_list")
\* Faulty variant: the cell keeps the first entry of the listing only.
X_ListLatestOnly ==
  /\ pc = "x_list"
  /\ \E resp \in ListResponses(g.auth_headers, "", 0, 5) :
       /\ Http("list", g.auth_headers, [NoArgs EXCEPT !.limit = 5], resp)
       /\ g' = [g EXCEPT !.r =
                  [resp EXCEPT !.json.analyses = Take(resp.json.analyses, 1)]]
       /\ CheckThenRead(resp, "done", {})
  /\ UNCHANGED <<nb, service, inflight>>

\* r = requests.get(".../analyses?limit=5", headers=auth_headers)
X_List == pc = "x_list" /\ ListCell("", 0, 5, "done", {})


\* ------------------------------------ automation notebook: Example 1, VICE
V_Search == pc = "v_search" /\ SearchCell("v_pick")
V_Pick == pc = "v_pick" /\ PickCell("v_detail")
V_Detail == pc = "v_detail" /\ DetailCell("v_param", GroupLists)
V_Param == pc = "v_param" /\ ParamCell("v_body")
\* request_body of Example 1
Example1Body ==
  [Submission(BaseKeys \cup {"requirements"},
              DictOf(<< <<g.parameter_id, Text(<<"example-data">>)>> >>),
              <<"terrain-automation-vice">>)
     EXCEPT !.requirements =
              << Requirement({"min_memory_limit", "step_number"},
                             0, 0, 4, 0, 0) >>]
V_Body == pc = "v_body" /\ BodyCell(Example1Body, "v_submit")
V_Submit == pc = "v_submit" /\ SubmitCell("v_list")
\* Faulty variant: the filter takes the id from analysis_id, which this notebook
\* has not assigned yet.
V_ListSavedId ==
  pc = "v_list" /\ ListCell("id", g.analysis_id, 0, "b_dir", {g.r})

\* query_params = {"filter": json.dumps([{"field":"id","value":r.json()["id"]}])}
V_List == pc = "v_list" /\ ListCell("id", g.r.json.id, 0, "b_dir", {g.r})

\* --------------------- automation notebook: Example 2, a batch over files
\* r = requests.get(".../secured/filesystem/paged-directory", ...)
\* r.raise_for_status(); paths = [f["path"] for f in r.json()["files"]]
B_Dir ==
  /\ pc = "b_dir"
  /\ \E resp \in DirResponses(g.auth_headers) :
       /\ Http("directory", g.auth_headers,
               [NoArgs EXCEPT !.target = <<"heuristomancer">>, !.limit = 500],
               resp)
       /\ IF RaisesForStatus(resp)
          THEN g' = [g EXCEPT !.r = resp]
          ELSE g' = [g EXCEPT !.r = resp,
                      !.paths = [i \in 1..Len(resp.json.files) |->
                                   resp.json.files[i].path]]
       /\ CheckThenRead(resp, "b_save", {})
  /\ UNCHANGED <<nb, service, inflight>>

\* Faulty variant: every path of the listing goes into the file.
PathListContentAll(paths) ==
  [header |-> "# application/vnd.de.path-list+csv; version=1",
   lines |-> paths]

\* "# application/vnd.de.path-list+csv; version=1\n" + "\n".join(paths[:8])
PathListContent(paths) ==
  [header |-> "# application/vnd.de.path-list+csv; version=1",
   lines |-> Take(paths, PathListLimit)]
\* request_body = {"content": ..., "dest": path_list_file}
SaveBody ==
  [NoBody EXCEPT !.keys = {"content", "dest"},
                 !.content = PathListContent(g.paths),
                 !.dest = PathListFile(g.username)]
\* Faulty variant: the cell goes on when the file could not be saved.
B_SaveIgnoringStatus ==
  /\ pc = "b_save"
  /\ \E resp \in SaveResponses(g.auth_headers, SaveBody) :
       /\ Http("saveas", g.auth_headers, [NoArgs EXCEPT !.body = SaveBody],
               resp)
       /\ files' = FilesAfterSave(resp, SaveBody)
       /\ g' = [g EXCEPT !.path_list_file = PathListFile(g.username),
                         !.request_body = SaveBody, !.r = resp]
       /\ Goto("b_search")
  /\ NoBodyRead
  /\ UNCHANGED <<nb, issued, analyses, inflight>>

\* path_list_file = ...; request_body = ...; r = requests.post(".../saveas", ...)
\* r.raise_for_status()
B_Save ==
  /\ pc = "b_save"
  /\ \E resp \in SaveResponses(g.auth_headers, SaveBody) :
       /\ Http("saveas", g.auth_headers, [NoArgs EXCEPT !.body = SaveBody],
               resp)
       /\ files' = FilesAfterSave(resp, SaveBody)
       /\ g' = [g EXCEPT !.path_list_file = PathListFile(g.username),
                         !.request_body = SaveBody, !.r = resp]
       /\ IF RaisesForStatus(resp)
          THEN Raise("HTTPError", HttpErrorMessage(resp))
          ELSE Goto("b_search")
  /\ NoBodyRead
  /\ UNCHANGED <<nb, issued, analyses, inflight>>

\* The first half of the cell: the search, r.raise_for_status(), and the
\* choice of apps[0].
B_Search ==
  /\ pc = "b_search"
  /\ \E resp \in SearchResponses(g.auth_headers) :
       /\ Http("search", g.auth_headers,
               [NoArgs EXCEPT !.target = <<"wanted">>], resp)
       /\ IF RaisesForStatus(resp)
          THEN /\ g' = [g EXCEPT !.r = resp]
               /\ Raise("HTTPError", HttpErrorMessage(resp))
               /\ NoBodyRead
          ELSE PickFirst([g EXCEPT !.r = resp], resp, "b_detail")
  /\ UNCHANGED <<nb, service, inflight>>
\* The second half: the app description.
B_Detail == pc = "b_detail" /\ DetailCell("b_lookup", GroupLists)

\* Faulty variant: the parameters of the second group are searched too.
IdsWithLabelAllGroups(parameters, label) ==
  LET all == parameters \o (IF Len(g.r.json.groups) > 1
                            THEN g.r.json.groups[2] ELSE <<>>)
      m == SelectSeq(all, LAMBDA p : p.label = label)
  IN [i \in 1..Len(m) |-> m[i].id]

\* [ p["id"] for p in parameters if p["label"] == label ]
IdsWithLabel(parameters, label) ==
  LET m == SelectSeq(parameters, LAMBDA p : p.label = label)
  IN [i \in 1..Len(m) |-> m[i].id]
\* [ x ] = ids: the unpacking raises ValueError unless ids has one element.
UnpackError(ids) ==
  IF Len(ids) = 0 THEN "not enough values to unpack (expected 1, got 0)"
  ELSE IF Len(ids) > 1 THEN "too many values to unpack (expected 1)"
  ELSE ""
\* Faulty variant: the lookup takes the first match of a label.
B_LookupFirstMatch ==
  /\ pc = "b_lookup"
  /\ ReadsBody(g.r)
  /\ IF g.r.json.groups = <<>>
     THEN Raise("IndexError", "list index out of range") /\ UNCHANGED g
     ELSE LET parameters == g.r.json.groups[1]
              re == IdsWithLabel(parameters, "Text to match")
              inp == IdsWithLabel(parameters, "Input File")
              out == IdsWithLabel(parameters, "Output File Name")
          IN IF Len(re) = 0 \/ Len(inp) = 0 \/ Len(out) = 0
             THEN Raise("IndexError", "list index out of range")
                  /\ UNCHANGED g
             ELSE /\ g' = [g EXCEPT !.regex_id = re[1], !.input_id = inp[1],
                                    !.output_id = out[1]]
                  /\ Goto("b_body")
  /\ NoHttp
  /\ UNCHANGED <<nb, service, inflight>>

\* app = r.json(); parameters = app["groups"][0]["parameters"]
\* [ regex_id ] = ...; [ input_id ] = ...; [ output_id ] = ...
B_Lookup ==
  /\ pc = "b_lookup"
  /\ ReadsBody(g.r)
  /\ IF g.r.json.groups = <<>>
     THEN Raise("IndexError", "list index out of range") /\ UNCHANGED g
     ELSE LET parameters == g.r.json.groups[1]
              re == IdsWithLabel(parameters, "Text to match")
              inp == IdsWithLabel(parameters, "Input File")
              out == IdsWithLabel(parameters, "Output File Name")
          IN IF Len(re) # 1
             THEN Raise("ValueError", UnpackError(re)) /\ UNCHANGED g
             ELSE IF Len(inp) # 1
             THEN /\ Raise("ValueError", UnpackError(inp))
                  /\ g' = [g EXCEPT !.regex_id = re[1]]
             ELSE IF Len(out) # 1
             THEN /\ Raise("ValueError", UnpackError(out))
                  /\ g' = [g EXCEPT !.regex_id = re[1], !.input_id = inp[1]]
             ELSE /\ g' = [g EXCEPT !.regex_id = re[1], !.input_id = inp[1],
                                    !.output_id = out[1]]
                  /\ Goto("b_body")
  /\ NoHttp
  /\ UNCHANGED <<nb, service, inflight>>

\* request_body of Example 2
BatchBody ==
  Submission(BaseKeys,
             DictOf(<< <<g.regex_id, Text(<<"#!/">>)>>,
                       <<g.input_id, Text(g.path_list_file)>>,
                       <<g.output_id, Text(<<"shebang.txt">>)>> >>),
             <<"terrain-automation-batch">>)
B_Body == pc = "b_body" /\ BodyCell(BatchBody, "b_submit")

\* r = requests.post(...); r.raise_for_status(); pprint.pprint(r.json())
\* analysis_id = r.json()["id"]
B_Submit ==
  /\ pc = "b_submit"
  /\ \E resp \in SubmitResponses(g.auth_headers, g.request_body) :
       /\ Http("submit", g.auth_headers,
               [NoArgs EXCEPT !.body = g.request_body], resp)
       /\ analyses' = AnalysesAfterSubmit(resp, g.request_body)
       /\ IF RaisesForStatus(resp)
          THEN g' = [g EXCEPT !.r = resp]
          ELSE g' = [g EXCEPT !.r = resp, !.analysis_id = resp.json.id]
       /\ CheckThenRead(resp, "b_list", {})
  /\ UNCHANGED <<nb, issued, files, inflight>>

\* query_params = {"filter": json.dumps([{"field":"parent_id","value":analysis_id}])}
B_List ==
  pc = "b_list" /\ ListCell("parent_id", g.analysis_id, 0, "s_search", {})


\* ------------------------- automation notebook: Example 3, parameter sweep
\* r = requests.get(".../apps", ...); r.raise_for_status  (not called);
\* app_listing = r.json()["apps"][0]; system_id = ...; app_id = ...
S_Search ==
  /\ pc = "s_search"
  /\ \E resp \in SearchResponses(g.auth_headers) :
       /\ Http("search", g.auth_headers,
               [NoArgs EXCEPT !.target = <<"wanted">>], resp)
       /\ PickFirst([g EXCEPT !.r = resp], resp, "s_detail")
  /\ UNCHANGED <<nb, service, inflight>>
\* (no later cell reads a label of this description)
S_Detail == pc = "s_detail" /\ DetailCell("s_ids", PlainGroupLists)

\* read_1_id = "56bc...c81f34..."; read_2_id = ...; error_rate_id = ...
\* (copied and pasted, not looked up in the app description)
S_Ids ==
  /\ pc = "s_ids"
  /\ g' = [g EXCEPT !.read_1_id = <<1, 1>>, !.read_2_id = <<1, 2>>,
                    !.error_rate_id = <<1, 3>>]
  /\ Goto("s_def")
  /\ NoHttp /\ NoBodyRead
  /\ UNCHANGED <<nb, service, inflight>>

\* def submit_parameter_sweep_job(read1, read2, error_rate): ...
S_Def ==
  /\ pc = "s_def"
  /\ Goto("s_loop")
  /\ NoHttp /\ NoBodyRead
  /\ UNCHANGED <<nb, g, service, inflight>>

\* Faulty variant: the body depends on how many analyses the service holds.
SweepBodyCounting(error_rate) ==
  [Submission(BaseKeys,
              DictOf(<< <<g.read_1_id, ListOf(<<"ATreads.fq">>)>>,
                        <<g.read_2_id, ListOf(<<"ATreads2.fq">>)>>,
                        <<g.error_rate_id, Text(<<error_rate>>)>> >>),
              <<"terrain-automation-sweep-", error_rate>>)
     EXCEPT !.debug = (Len(analyses) % 2 = 1)]

\* request_body of submit_parameter_sweep_job (a local variable)
SweepBody(error_rate) ==
  Submission(BaseKeys,
             DictOf(<< <<g.read_1_id, ListOf(<<"ATreads.fq">>)>>,
                       <<g.read_2_id, ListOf(<<"ATreads2.fq">>)>>,
                       <<g.error_rate_id, Text(<<error_rate>>)>> >>),
             <<"terrain-automation-sweep-", error_rate>>)

\* Faulty variant: the next submission is sent without waiting for the response of
\* the one before.
S_SendEager ==
  /\ pc \in {"s_loop", "s_wait"}
  /\ g.sweep_i + Cardinality(inflight) < Len(ErrorRates)
  /\ LET rate == ErrorRates[g.sweep_i + Cardinality(inflight) + 1]
     IN /\ g' = [g EXCEPT !.error_rate = rate]
        /\ reqLog' = Append(reqLog,
             Request("submit", g.auth_headers,
                     [NoArgs EXCEPT !.body = SweepBody(rate)], 0))
        /\ calls' = Append(calls, "submit")
        /\ inflight' = inflight \cup {Len(reqLog) + 1}
  /\ Goto("s_wait")
  /\ NoBodyRead
  /\ UNCHANGED <<nb, service>>

\* for error_rate in [...]: submit_parameter_sweep_job(read1, read2, error_rate)
\* up to the moment requests.post has sent the request.
S_Send ==
  /\ pc = "s_loop"
  /\ inflight = {}
  /\ LET rate == ErrorRates[g.sweep_i + 1]
     IN /\ g' = [g EXCEPT !.error_rate = rate]
        /\ reqLog' = Append(reqLog,
             Request("submit", g.auth_headers,
                     [NoArgs EXCEPT !.body = SweepBody(rate)], 0))
        /\ calls' = Append(calls, "submit")
        /\ inflight' = {Len(reqLog) + 1}
  /\ Goto("s_wait")
  /\ NoBodyRead
  /\ UNCHANGED <<nb, service>>

\* Faulty variant: a failed submission cancels the analyses created before it.
AnalysesRolledBack(an) ==
  [i \in 1..Len(an) |-> [an[i] EXCEPT !.status = "Canceled"]]

\* What a failed submission leaves of the analyses created before it.
AnalysesKept(an) == an

\* Faulty variant: a failed submission is skipped and the loop goes on.
S_RecvContinue ==
  /\ pc = "s_wait"
  /\ \E k \in inflight :
     \E resp \in SubmitResponses(reqLog[k].headers, reqLog[k].body) :
       /\ reqLog' = [reqLog EXCEPT ![k].status = resp.status_code]
       /\ inflight' = inflight \ {k}
       /\ analyses' = AnalysesAfterSubmit(resp, reqLog[k].body)
       /\ IF RaisesForStatus(resp) THEN NoBodyRead ELSE ReadsBody(resp)
       /\ g' = [g EXCEPT !.sweep_i = g.sweep_i + 1]
       /\ Goto(IF g.sweep_i + 1 = Len(ErrorRates) THEN "done" ELSE "s_loop")
  /\ UNCHANGED <<nb, issued, files, calls>>

\* requests.post returns the response; r.raise_for_status()
\* pprint.pprint(r.json()); the loop goes on with the next value.
S_Recv ==
  /\ pc = "s_wait"
  /\ \E k \in inflight :
     \E resp \in SubmitResponses(reqLog[k].headers, reqLog[k].body) :
       /\ reqLog' = [reqLog EXCEPT ![k].status = resp.status_code]
       /\ inflight' = inflight \ {k}
       /\ IF RaisesForStatus(resp)
          THEN /\ analyses' = AnalysesKept(analyses)
               /\ Raise("HTTPError", HttpErrorMessage(resp))
               /\ NoBodyRead
               /\ UNCHANGED g
          ELSE /\ analyses' = AnalysesAfterSubmit(resp, reqLog[k].body)
               /\ ReadsBody(resp)
               /\ g' = [g EXCEPT !.sweep_i = g.sweep_i + 1]
               /\ Goto(IF g.sweep_i + 1 = Len(ErrorRates)
                       THEN "done" ELSE "s_loop")
  /\ UNCHANGED <<nb, issued, files, calls>>

\* ------------------------------------------------------ specification
Next ==
  \/ Prompt \/ Token
  \/ I_Welcome \/ I_Search \/ I_Filter \/ I_Detail \/ I_Version
  \/ I_VersionDetail \/ I_Body \/ I_Submit \/ I_AnalysisId \/ I_List
  \/ I_Url \/ I_Stop
  \/ X_Search \/ X_Pick \/ X_Detail \/ X_Param \/ X_Body \/ X_Submit
  \/ X_List
  \/ V_Search \/ V_Pick \/ V_Detail \/ V_Param \/ V_Body \/ V_Submit
  \/ V_List
  \/ B_Dir \/ B_Save \/ B_Search \/ B_Detail \/ B_Lookup \/ B_Body
  \/ B_Submit \/ B_List
  \/ S_Search \/ S_Detail \/ S_Ids \/ S_Def \/ S_Send \/ S_Recv

Spec == Init /\ [][Next]_vars


\* ------------------------------------------------------------ properties
Indices == 1..Len(reqLog)
Failed(status) == status >= 400 /\ status < 600
\* The requests submit_parameter_sweep_job has sent, in order.
IsSweep(req) ==
  req.op = "submit" /\ req.body.name[1] = "terrain-automation-sweep-"
SweepLog == SelectSeq(reqLog, IsSweep)
SweepStopped == pc = "halted" /\ err.at = "s_wait"
SweepDone == nb = "auto" /\ pc = "done"
Count(S) == Cardinality(S)
\* The analyses created since the kernel started.
SessionAnalyses == SelectSeq(analyses, LAMBDA a : a.status # "Completed")

\* C1 (as claimed): when the sweep has ended, one submit request was sent for
\* each of the N values, whatever succeeded and whatever failed.
C1_EveryValueSubmitted ==
  (SweepStopped \/ SweepDone) =>
     /\ Len(SweepLog) = Len(ErrorRates)
     /\ \A i \in 1..Len(SweepLog) : SweepLog[i].body.name[2] = ErrorRates[i]

\* C1 (amended): the sweep sends its submit requests one per value and in
\* input order up to and including the first value whose submission fails:
\* all N when every submission succeeds, exactly i when the i-th fails, and
\* then the HTTPError of that value ends the sweep.
C1_SweepUntilFirstFailure ==
  /\ Len(SweepLog) <= Len(ErrorRates)
  /\ \A i \in 1..Len(SweepLog) :
       /\ SweepLog[i].body.name[2] = ErrorRates[i]
       /\ SweepLog[i].body.config =
            { <<g.read_1_id, ListOf(<<"ATreads.fq">>)>>,
              <<g.read_2_id, ListOf(<<"ATreads2.fq">>)>>,
              <<g.error_rate_id, Text(<<ErrorRates[i]>>)>> }
       /\ i < Len(SweepLog) => SweepLog[i].status = 200
  /\ SweepDone =>
       /\ Len(SweepLog) = Len(ErrorRates)
       /\ SweepLog[Len(SweepLog)].status = 200
  /\ SweepStopped =>
       /\ err.type = "HTTPError"
       /\ Len(SweepLog) = g.sweep_i + 1
       /\ Failed(SweepLog[Len(SweepLog)].status)
C1_Witness ==
  /\ SweepStopped
  /\ Len(SweepLog) = 2
  /\ SweepLog[1].status = 200

\* C2 (as claimed): no body of a failed response is ever read.
C2_FailedBodyNeverRead ==
  \A b \in bodyReads : ~Failed(b.status)

\* C3: every invocation of an operation sends exactly one request, a failed
\* submission is followed by no second submission of the same body, and
\* there are at most as many analyses as submit invocations.
C3_NoRetry ==
  /\ Len(reqLog) = Len(calls)
  /\ \A k \in Indices : reqLog[k].op = calls[k]
  /\ \A j, k \in Indices :
       (j < k /\ reqLog[j].op = "submit" /\ Failed(reqLog[j].status))
         => ~(reqLog[k].op = "submit" /\ reqLog[k].body = reqLog[j].body)
  /\ Len(SessionAnalyses) <= Count({ k \in 1..Len(calls) : calls[k] = "submit" })
C3_Witness ==
  /\ pc = "halted"
  /\ \E k \in Indices : reqLog[k].op = "submit" /\ Failed(reqLog[k].status)

\* C4: at most one submit request of the sweep is in flight, and a request
\* that has no response yet is the last one sent.
C4_NoOverlap ==
  /\ Cardinality(inflight) <= 1
  /\ inflight = { k \in Indices : reqLog[k].status = 0 }
  /\ \A k \in Indices : reqLog[k].status = 0 => k = Len(reqLog)
C4_Witness ==
  /\ pc = "s_wait"
  /\ g.sweep_i = 1
  /\ inflight # {}

\* C5: when a submission of the sweep fails, the error is that of the value
\* being submitted, no stop request is sent, and every analysis an earlier
\* submission created is still there and was not canceled.
Accepted == { k \in Indices : reqLog[k].op = "submit" /\ reqLog[k].status = 200 }
C5_NoRollback ==
  SweepStopped =>
    /\ SweepLog[Len(SweepLog)].body.name[2] = g.error_rate
    /\ Failed(SweepLog[Len(SweepLog)].status)
    /\ \A k \in Indices : reqLog[k].op # "stop"
    /\ Len(analyses) = Count(Accepted)
    /\ \A i \in 1..Len(analyses) : analyses[i].status = "Submitted"
C5_Witness ==
  /\ SweepStopped
  /\ g.sweep_i >= 1
  /\ Len(analyses) >= 3

\* C6: a token exchange that fails (as it always does for wrong credentials)
\* leaves no token and no Authorization header and ends the run; one that
\* succeeds leaves a token the service issued, in a header the service
\* accepts.
TokenRequests == { k \in Indices : reqLog[k].op = "token" }
C6_Authenticate ==
  /\ \A k \in TokenRequests :
       /\ reqLog[k].auth[2] = "wrong" => Failed(reqLog[k].status)
       /\ Failed(reqLog[k].status) =>
            /\ g.token = Unset
            /\ g.auth_headers = NoHeaders
            /\ issued = {}
            /\ pc = "halted" /\ err.type = "HTTPError" /\ err.at = "token"
            /\ k = Len(reqLog)
       /\ ~Failed(reqLog[k].status) =>
            /\ g.token \in issued
            /\ Authorized(g.auth_headers)
            /\ g.auth_headers.Authorization[2] = g.token
  /\ TokenRequests = {} => g.token = Unset /\ g.auth_headers = NoHeaders
C6_Witness ==
  /\ pc = "halted"
  /\ err.at = "token"
  /\ g.password = "wrong"

\* C7: every call other than the welcome message and the token exchange
\* carries Authorization: Bearer <token>, the token of a token exchange that
\* succeeded before the call.
C7_BearerOnEveryCall ==
  \A k \in Indices :
    reqLog[k].op \notin {"welcome", "token"} =>
      /\ reqLog[k].headers.Authorization = <<"Bearer", g.token>>
      /\ g.token \in issued
      /\ \E j \in 1..(k - 1) : reqLog[j].op = "token" /\ reqLog[j].status = 200
C7_Witness ==
  /\ \E k \in Indices : reqLog[k].op = "saveas"
  /\ \E k \in Indices : reqLog[k].op = "submit"

\* C8: once the token is set, no step changes it or the Authorization
\* header, the service issues no further token, and no step sends another
\* token request.
C8_TokenReadOnly ==
  [][ g.token # Unset =>
        /\ g'.token = g.token
        /\ g'.auth_headers = g.auth_headers
        /\ issued' = issued
        /\ \A k \in 1..Len(reqLog') :
             reqLog'[k].op = "token" => k \in TokenRequests ]_vars
C8_Witness ==
  /\ pc = "done"
  /\ g.token # Unset

\* C9 (as claimed): once the token exchange has returned, the session holds
\* the password no longer.
TokenReturned == TokenRequests # {}
C9_PasswordDropped ==
  TokenReturned => g.password = Unset

\* C9 (amended): the password goes into the token request and into nothing
\* else, but both credentials stay in the kernel's globals after the token
\* exchange, and the username is read again for every output_dir.
C9_PasswordOnlyInTokenExchange ==
  /\ \A k \in Indices :
       /\ reqLog[k].auth # <<>> =>
            reqLog[k].op = "token" /\ reqLog[k].auth = <<g.username, g.password>>
       /\ g.password \notin Range(reqLog[k].body.output_dir)
                              \cup Range(reqLog[k].body.dest)
       /\ reqLog[k].op = "submit" =>
            reqLog[k].body.output_dir = <<"/iplant/home/", g.username, "/analyses">>
  /\ TokenReturned => g.password \in Passwords /\ g.username \in Usernames
C9_Witness ==
  /\ g.password \in Passwords
  /\ \E k \in Indices : reqLog[k].op = "submit"

\* C10 (as claimed): a label without a match ends the lookup with
\* UnknownParameterError, a label with several matches with
\* AmbiguousParameterError, and a parameter id is never taken by position:
\* the parameter a flow has chosen is the only one with the wanted label.
AllParams ==
  UNION { Range(g.r.json.groups[i]) : i \in 1..Len(g.r.json.groups) }
LabelOf(id) == { p.label : p \in { q \in AllParams : q.id = id } }
C10_LabelErrors ==
  /\ (pc = "halted" /\ err.at = "b_lookup" /\ g.r.json.groups # <<>>) =>
       err.type \in {"UnknownParameterError", "AmbiguousParameterError"}
  /\ pc \in {"x_body", "v_body"} => LabelOf(g.parameter_id) = {"Input File"}

\* C10 (amended): only Example 2 looks parameters up by label, among the
\* parameters of the first group: when a label has no match there or more
\* than one, the unpacking raises ValueError (the same type both times, the
\* message tells which) and no batch request is built or sent; when the
\* lookup passes, every label has exactly one match.  Example 1 and the
\* executable app take the first parameter of the first group by position.
Matches(l) == { k \in 1..Len(g.r.json.groups[1]) : g.r.json.groups[1][k].label = l }
LookupLabels == <<"Text to match", "Input File", "Output File Name">>
FirstBad ==
  CHOOSE i \in 1..3 :
    /\ Count(Matches(LookupLabels[i])) # 1
    /\ \A j \in 1..(i - 1) : Count(Matches(LookupLabels[j])) = 1
C10_LookupByLabel ==
  /\ (pc = "halted" /\ err.at = "b_lookup" /\ g.r.json.groups # <<>>) =>
       /\ err.type = "ValueError"
       /\ \E l \in Labels : Count(Matches(l)) # 1
       /\ err.msg = IF Matches(LookupLabels[FirstBad]) = {}
                    THEN "not enough values to unpack (expected 1, got 0)"
                    ELSE "too many values to unpack (expected 1)"
       /\ g.request_body.name # <<"terrain-automation-batch">>
       /\ \A k \in Indices :
            reqLog[k].body.name # <<"terrain-automation-batch">>
  /\ pc = "b_body" =>
       /\ \A l \in Labels : Count(Matches(l)) = 1
       /\ \A k \in 1..Len(g.r.json.groups[1]) :
            LET p == g.r.json.groups[1][k]
            IN /\ p.label = "Text to match" => g.regex_id = p.id
               /\ p.label = "Input File" => g.input_id = p.id
               /\ p.label = "Output File Name" => g.output_id = p.id
  /\ pc \in {"x_body", "v_body"} =>
       g.parameter_id = g.r.json.groups[1][1].id
C10_Witness ==
  /\ pc = "halted"
  /\ err.at = "b_lookup"
  /\ err.msg = "too many values to unpack (expected 1)"

\* The submit requests sent so far.
Submits == { k \in Indices : reqLog[k].op = "submit" }
\* The request that fetched the app description a submission was built from:
\* the last one before it.
DetailBefore(k) ==
  LET D == { j \in 1..(k - 1) : reqLog[j].op \in {"detail", "version_detail"} }
  IN CHOOSE j \in D : \A i \in D : i <= j
ViceNames == {<<"Example VICE Analysis">>, <<"terrain-automation-vice">>}
\* The values each request body gives its parameters.
ConfigValues(name) ==
  IF name = <<"Example VICE Analysis">> THEN {}
  ELSE IF name = <<"essay-word-count">> THEN {Text(<<"essay.txt">>)}
  ELSE IF name = <<"terrain-automation-vice">> THEN {Text(<<"example-data">>)}
  ELSE IF name = <<"terrain-automation-batch">>
  THEN {Text(<<"#!/">>), Text(PathListFile(g.username)), Text(<<"shebang.txt">>)}
  ELSE {ListOf(<<"ATreads.fq">>), ListOf(<<"ATreads2.fq">>), Text(<<name[2]>>)}

\* C11 (as claimed): every submission request body has the keys config, name,
\* app_id, system_id, debug, output_dir, notify and requirements, and
\* app_version_id besides them only when a version was selected.
C11_RequirementsAlwaysPresent ==
  \A k \in Submits :
    /\ reqLog[k].body.keys \ {"app_version_id"} = BaseKeys \cup {"requirements"}
    /\ "app_version_id" \in reqLog[k].body.keys
         <=> reqLog[k].body.app_version_id # Unset

\* C11 (amended): every submission request body has the keys config, name,
\* app_id, system_id, debug, output_dir and notify; requirements is a key of
\* the two interactive submissions only and app_version_id of the one that
\* selected a version.  config gives one value to each parameter id, app_id
\* and system_id are those of the app whose description was fetched last,
\* output_dir is the user's analyses folder, debug is off and notify is on.
C11_BodyKeys ==
  \A k \in Submits :
    LET b == reqLog[k].body
        d == reqLog[DetailBefore(k)]
    IN /\ b.keys = BaseKeys
            \cup (IF b.name \in ViceNames THEN {"requirements"} ELSE {})
            \cup (IF b.name = <<"Example VICE Analysis">>
                  THEN {"app_version_id"} ELSE {})
       /\ "requirements" \notin b.keys => b.requirements = <<>>
       /\ "app_version_id" \in b.keys <=> b.app_version_id # Unset
       /\ b.system_id = d.target[1] /\ b.app_id = d.target[2]
       /\ b.app_id \in { a.id : a \in Catalog }
       /\ b.debug = FALSE /\ b.notify = TRUE
       /\ b.output_dir = OutputDir(g.username)
       /\ { e[2] : e \in b.config } = ConfigValues(b.name)
       /\ Count(DictKeys(b.config)) = Count(ConfigValues(b.name))
       /\ Count(b.config) = Count(ConfigValues(b.name))
C11_Witness ==
  \E k \in Submits :
    /\ reqLog[k].body.name = <<"terrain-automation-batch">>
    /\ "requirements" \notin reqLog[k].body.keys
    /\ reqLog[k].status = 200

\* The run is at one of the cells of S, or one of them raised.
At(S) == pc \in S \/ (pc = "halted" /\ err.at \in S)
\* The body of the last submit request sent.
LastSubmit == reqLog[CHOOSE k \in Submits : \A j \in Submits : j <= k].body
\* A sweep body without the two places the error rate goes to.
SansRate(b) ==
  [b EXCEPT !.name = <<>>,
            !.config = { e \in b.config : e[1] # g.error_rate_id }]

C13_BuildIsLocal ==
  [][ /\ (g'.request_body # g.request_body /\ "config" \in g'.request_body.keys)
           => /\ UNCHANGED <<reqLog, calls, service, inflight>>
              /\ pc \in {"i_body", "x_body", "v_body", "b_body"}
      /\ pc \in {"i_body", "x_body", "v_body", "b_body"}
           => UNCHANGED <<reqLog, calls, service, inflight>>
      /\ Len(reqLog') >= Len(reqLog)
      /\ \A k \in Indices : reqLog'[k].body = reqLog[k].body
      /\ (Len(reqLog') > Len(reqLog) /\ reqLog'[Len(reqLog')].op = "submit")
           => /\ g'.request_body = g.request_body
              /\ pc # "s_loop" => reqLog'[Len(reqLog')].body = g.request_body
  ]_vars
C13_Witness ==
  /\ pc = "b_list"
  /\ LastSubmit = g.request_body
  /\ LastSubmit.name = <<"terrain-automation-batch">>

C15_RoundTrip ==
  \A k \in Indices :
    (reqLog[k].op = "list" /\ reqLog[k].field = "id") =>
      /\ k - 1 \in Accepted
      /\ reqLog[k].limit = 0
      /\ k = Len(reqLog) =>
           /\ reqLog[k].aid = analyses[1].id
           /\ analyses[1].app_id = reqLog[k - 1].body.app_id
           /\ reqLog[k].status = 200 =>
                /\ \E i \in 1..Len(g.r.json.analyses) :
                      g.r.json.analyses[i].id = reqLog[k].aid
                /\ \A i \in 1..Len(g.r.json.analyses) :
                      g.r.json.analyses[i].id = reqLog[k].aid
C15_Witness ==
  /\ pc = "i_url"
  /\ Len(analyses) > 1
  /\ Len(g.r.json.analyses) = 1
  /\ g.r.json.analyses[1].id = g.analysis_id

\* The value a sweep request gives the error rate parameter.
RateOf(req) ==
  { e[2].v[1] : e \in { x \in req.body.config : x[1] = g.error_rate_id } }
\* The analyses the sweep has created: the most recent ones.
SweepAnalyses ==
  SubSeq(analyses, 1, Count({ i \in 1..Len(SweepLog) : SweepLog[i].status = 200 }))

\* C16: the values of the sweep are pairwise distinct and no two of its
\* requests carry the same one; every analysis the sweep has created has an
\* id no other analysis has, and the app_id and system_id that all the
\* sweep's requests share.  When the sweep has run to its end, it has sent 4
\* requests, each value is the error rate of exactly one of them, and they
\* have created 4 analyses.
C16_FourDistinctAnalyses ==
  /\ \A i, j \in 1..Len(SweepLog) :
       /\ i # j => RateOf(SweepLog[i]) # RateOf(SweepLog[j])
       /\ SweepLog[i].body.app_id = SweepLog[j].body.app_id
       /\ SweepLog[i].body.system_id = SweepLog[j].body.system_id
  /\ \A i \in 1..Len(SweepAnalyses) :
       /\ SweepAnalyses[i].app_id = SweepLog[1].body.app_id
       /\ SweepAnalyses[i].system_id = SweepLog[1].body.system_id
       /\ \A j \in 1..Len(analyses) :
            i # j => analyses[j].id # SweepAnalyses[i].id
  /\ SweepDone =>
       /\ Len(SweepLog) = 4
       /\ Len(SweepAnalyses) = 4
       /\ \A v \in Range(ErrorRates) :
            Count({ i \in 1..Len(SweepLog) : RateOf(SweepLog[i]) = {v} }) = 1
C16_Witness ==
  /\ SweepDone
  /\ Len(SweepAnalyses) = 4
  /\ Len(analyses) > 4

\* The parameter ids of the app description in r.
ParamIds == { p.id : p \in AllParams }
SubmitCells == {"i_submit", "x_submit", "v_submit", "b_submit"}
BodyCells == {"i_body", "x_body", "v_body", "b_body"}

\* C17 (as claimed): the keys of config of every submission request are ids
\* of parameters of the description of the request's app.
C17_ConfigKeysInDetail ==
  /\ pc \in SubmitCells => DictKeys(g.request_body.config) \subseteq ParamIds
  /\ \A i \in 1..Len(SweepLog) :
       DictKeys(SweepLog[i].body.config) \subseteq ParamIds

\* C17 (amended): in the submissions of the intro notebook and of Examples 1
\* and 2 the keys of config are ids read from the description fetched, just
\* before, for the request's system_id and app_id.  The keys of a sweep
\* request are the three ids written in the notebook, whatever the
\* description fetched for its app holds.  No step compares a body with a
\* description: only the service's answer to the submit can stop a run there.
C17_ConfigKeysUnchecked ==
  /\ pc \in SubmitCells =>
       /\ DictKeys(g.request_body.config) \subseteq ParamIds
       /\ g.r.status_code = 200
       /\ reqLog[Len(reqLog)].op \in {"detail", "version_detail"}
       /\ reqLog[Len(reqLog)].target[1] = g.request_body.system_id
       /\ reqLog[Len(reqLog)].target[2] = g.request_body.app_id
  /\ \A i \in 1..Len(SweepLog) :
       /\ DictKeys(SweepLog[i].body.config) = {<<1, 1>>, <<1, 2>>, <<1, 3>>}
       /\ reqLog[DetailBefore(Len(reqLog))].target =
            <<SweepLog[i].body.system_id, SweepLog[i].body.app_id>>
  /\ At(BodyCells \cup SubmitCells \cup {"s_ids", "s_def", "s_loop", "s_wait"})
       => err.type \in {"none", "HTTPError"}
  /\ ~(pc = "halted" /\ err.at \in BodyCells \cup {"s_ids", "s_def", "s_loop"})
C17_Witness ==
  /\ Len(SweepLog) = 2
  /\ SweepLog[1].status = 200
  /\ DictKeys(SweepLog[1].body.config) \cap ParamIds = {}

\* C18 (as claimed): requirements of every submission request has one entry
\* for each step the app's description declares, numbered 0, 1, ... in order.
C18_OneEntryPerStep ==
  \A k \in Submits :
    LET b == reqLog[k].body
    IN /\ Len(b.requirements) = StepCount(b.app_id)
       /\ \A i \in 1..Len(b.requirements) : b.requirements[i].step_number = i - 1

\* C18 (amended): the two interactive submissions carry requirements with
\* exactly one entry, whose step_number is 0; the executable app, batch and
\* sweep submissions carry no requirements.  So the step numbers of a
\* request are always 0, 1, ... without gap or repetition, but the number of
\* entries is written in the notebook and not taken from the description.
C18_RequirementsLiteral ==
  \A k \in Submits :
    LET b == reqLog[k].body
    IN /\ b.name \in ViceNames =>
            /\ "requirements" \in b.keys
            /\ Len(b.requirements) = 1
            /\ "step_number" \in b.requirements[1].keys
            /\ "min_memory_limit" \in b.requirements[1].keys
       /\ b.name \notin ViceNames =>
            /\ "requirements" \notin b.keys
            /\ b.requirements = <<>>
       /\ \A i \in 1..Len(b.requirements) : b.requirements[i].step_number = i - 1
C18_Witness ==
  /\ nb = "intro"
  /\ pc = "x_list"
  /\ \E k \in Submits : Len(reqLog[k].body.requirements) = 1
  /\ LastSubmit.requirements = <<>>

\* The ids of a sequence of analyses, in its order.
IdsOf(l) == [i \in 1..Len(l) |-> l[i].id]

\* C20: the listing a cell holds is the listing the service made: the
\* analyses that match the filter, cut at the limit, in the service's order.
\* The unfiltered listing with limit 5 holds at most 5 analyses, the most
\* recently started ones, most recent first, and the analysis submitted just
\* before is the first of them.
C20_ListUnchanged ==
  /\ (reqLog # <<>> /\ reqLog[Len(reqLog)].op = "list"
                    /\ reqLog[Len(reqLog)].status = 200) =>
       IdsOf(g.r.json.analyses) =
         IdsOf(Limited(Matching(reqLog[Len(reqLog)].field,
                                reqLog[Len(reqLog)].aid),
                       reqLog[Len(reqLog)].limit))
  /\ (nb = "intro" /\ pc = "done") =>
       LET l == g.r.json.analyses
           req == reqLog[Len(reqLog)]
       IN /\ req.op = "list" /\ req.field = "" /\ req.limit = 5
          /\ Len(l) <= 5
          /\ Len(l) = IF Len(analyses) < 5 THEN Len(analyses) ELSE 5
          /\ \A i \in 1..Len(l) : l[i].id = analyses[i].id
          /\ \A i, j \in 1..Len(l) : i < j => l[i].id > l[j].id
          /\ reqLog[Len(reqLog) - 1].op = "submit"
          /\ l[1].app_id = reqLog[Len(reqLog) - 1].body.app_id
          /\ l[1].status = "Submitted"
C20_Witness ==
  /\ nb = "intro"
  /\ pc = "done"
  /\ Len(analyses) > 5
  /\ Len(g.r.json.analyses) = 5

\* The run was stopped by the request sent last, which failed.
StoppedByFailure ==
  pc = "halted" /\ reqLog # <<>> /\ Failed(reqLog[Len(reqLog)].status)
AuthFailure == StoppedByFailure /\ reqLog[Len(reqLog)].status = 401
SubmitFailure ==
  StoppedByFailure /\ reqLog[Len(reqLog)].op = "submit"
    /\ reqLog[Len(reqLog)].status # 401

NameOf(app_id) == (CHOOSE a \in Catalog : a.id = app_id).name
\* The cells of the intro notebook's interactive flow that follow the filter.
AfterFilter ==
  {"i_detail", "i_version", "i_vdetail", "i_body", "i_submit", "i_id",
   "i_list", "i_url", "i_stop"}
AfterPick == {"x_detail", "v_detail", "b_detail", "s_detail"}

\* C22 (as claimed): every app a flow fetches the description of, and every
\* app it submits, carries exactly the wanted name.
C22_ExactNameAlways ==
  \A k \in Indices :
    /\ reqLog[k].op \in {"detail", "version_detail"}
         => NameOf(reqLog[k].target[2]) = "wanted"
    /\ reqLog[k].op = "submit" => NameOf(reqLog[k].body.app_id) = "wanted"

\* C22 (amended): only the interactive flow of the intro notebook filters
\* the search result by name: its app is the first entry whose name is
\* exactly the wanted one, wherever the service has put it, and that is the
\* app it describes and submits.  Every other flow takes the first entry of
\* its search result, whatever its name, and describes and submits that.
C22_ExactNameInIntroOnly ==
  /\ At(AfterFilter) => g.app.name = "wanted"
  /\ pc = "i_detail" =>
       \E i \in 1..Len(g.r.json.apps) :
         /\ g.app = g.r.json.apps[i]
         /\ \A j \in 1..(i - 1) : g.r.json.apps[j].name # "wanted"
  /\ pc \in AfterPick =>
       /\ g.app_listing = g.r.json.apps[1]
       /\ g.app_id = g.r.json.apps[1].id
       /\ g.system_id = g.r.json.apps[1].system_id
  /\ \A k \in Indices :
       /\ (reqLog[k].op = "submit"
             /\ reqLog[k].body.name = <<"Example VICE Analysis">>)
            => NameOf(reqLog[k].body.app_id) = "wanted"
       /\ reqLog[k].op = "version_detail"
            => NameOf(reqLog[k].target[2]) = "wanted"
  /\ pc \in {"x_submit", "v_submit", "b_submit"} =>
       /\ g.request_body.app_id = g.app_listing.id
       /\ g.request_body.system_id = g.app_listing.system_id
  /\ \A i \in 1..Len(SweepLog) :
       /\ SweepLog[i].body.app_id = g.app_listing.id
       /\ SweepLog[i].body.system_id = g.app_listing.system_id
C22_Witness ==
  /\ pc = "i_detail"
  /\ g.r.json.apps[1].name # "wanted"
  /\ g.app.name = "wanted"

\* The parameters of the description in r, of whatever group, with a label.
Carriers(l) == { p \in AllParams : p.label = l }
LookupFailed == pc = "halted" /\ err.at = "b_lookup" /\ g.r.json.groups # <<>>

\* C23 (as claimed): when each label is carried by exactly one parameter of
\* the description, in whatever group, the lookup finds them all.
C23_AnyGroup ==
  LookupFailed => \E l \in Labels : Count(Carriers(l)) # 1

\* C23 (amended): the lookup of Example 2 reads the parameters of the first
\* group only.  The ids it finds are ids of the first group; a label whose
\* only parameter is in a later group is not found, and the lookup ends with
\* the ValueError of a label without a match.  Example 1 and the executable
\* app take the first parameter of the first group and read no label.
C23_FirstGroupOnly ==
  /\ pc = "b_body" =>
       {g.regex_id, g.input_id, g.output_id}
         \subseteq { p.id : p \in Range(g.r.json.groups[1]) }
  /\ (LookupFailed /\ \A l \in Labels : Count(Carriers(l)) = 1) =>
       /\ err.type = "ValueError"
       /\ err.msg = "not enough values to unpack (expected 1, got 0)"
       /\ Len(g.r.json.groups) > 1
       /\ \E p \in Range(g.r.json.groups[2]) :
            /\ p.label = LookupLabels[FirstBad]
            /\ Matches(p.label) = {}
  /\ pc \in {"x_body", "v_body"} => g.parameter_id = <<1, 1>>
C23_Witness ==
  /\ LookupFailed
  /\ \A l \in Labels : Count(Carriers(l)) = 1

\* C24: a submission that carries app_version_id comes right after the
\* versioned description fetched for its system_id, app_id and that very
\* version id, which in turn was read from the versions of the description
\* of the same app; every other submission has no app_version_id, also when
\* the session still holds the version id an earlier flow selected.
C24_VersionId ==
  /\ \A k \in Submits :
       LET b == reqLog[k].body
           j == DetailBefore(k)
       IN IF b.name = <<"Example VICE Analysis">>
          THEN /\ "app_version_id" \in b.keys
               /\ b.app_version_id # Unset
               /\ reqLog[j].op = "version_detail"
               /\ reqLog[j].status = 200
               /\ reqLog[j].target = <<b.system_id, b.app_id, b.app_version_id>>
               /\ reqLog[j - 1].op = "detail"
               /\ reqLog[j - 1].status = 200
               /\ reqLog[j - 1].target = <<b.system_id, b.app_id>>
          ELSE /\ "app_version_id" \notin b.keys
               /\ b.app_version_id = Unset
  /\ pc = "i_vdetail" =>
       \E v \in Range(g.r.json.versions) :
         v.version = "4.0.1" /\ v.version_id = g.app_version_id
  /\ pc = "x_submit" =>
       /\ g.app_version_id # Unset
       /\ "app_version_id" \notin g.request_body.keys
C24_Witness ==
  /\ nb = "intro"
  /\ pc = "x_list"
  /\ g.app_version_id # Unset
  /\ "app_version_id" \notin LastSubmit.keys
  /\ \E k \in Submits : reqLog[k].body.app_version_id = g.app_version_id

\* The requests that saved the path list file.
Saves == { k \in Indices : reqLog[k].op = "saveas" }

\* C25: the content of the path list file is the header line and, after it,
\* the first min(8, n) of the n paths of the directory listing, in the order
\* of the listing: never more than 8, all n when n is at most 8.
C25_PathList ==
  \A k \in Saves :
    LET c == reqLog[k].body.content
        n == Len(g.paths)
    IN /\ reqLog[k].body.keys = {"content", "dest"}
       /\ c.header = "# application/vnd.de.path-list+csv; version=1"
       /\ Len(c.lines) = IF n < 8 THEN n ELSE 8
       /\ \A i \in 1..Len(c.lines) : c.lines[i] = g.paths[i]
       /\ \A i \in 1..n : g.paths[i] = i
       /\ reqLog[k - 1].op = "directory" /\ reqLog[k - 1].status = 200
C25_Witness ==
  \E k \in Saves :
    /\ reqLog[k].status = 200
    /\ Len(g.paths) > 8
    /\ Len(reqLog[k].body.content.lines) = 8

\* The submit requests of the batch of Example 2.
BatchSubmits ==
  { k \in Submits : reqLog[k].body.name = <<"terrain-automation-batch">> }

\* C26: the batch is submitted only after the one request that saved the
\* path list file, which succeeded; the value the batch request gives the
\* input file parameter is the path the file was saved to; and when saving
\* fails, as it does when a file is at that path already, the run ends there
\* and no batch is submitted.
C26_SaveBeforeBatch ==
  /\ Count(Saves) <= 1
  /\ \A k \in BatchSubmits :
       \E j \in Saves :
         /\ j < k
         /\ reqLog[j].status = 200
         /\ reqLog[j].body.dest \in files
         /\ <<g.input_id, Text(reqLog[j].body.dest)>> \in reqLog[k].body.config
         /\ reqLog[j].body.dest = PathListFile(g.username)
  /\ \A j \in Saves :
       Failed(reqLog[j].status) =>
         /\ BatchSubmits = {}
         /\ j = Len(reqLog)
         /\ pc = "halted" /\ err.at = "b_save" /\ err.type = "HTTPError"
  /\ (pc = "b_save" /\ PathListFile(g.username) \in files)
       => ~ENABLED (B_Save /\ pc' # "halted")
C26_Witness ==
  /\ pc = "halted"
  /\ err.at = "b_save"
  /\ PathListFile(g.username) \in files
  /\ Len(analyses) = 1

\* The last search request before request k (0 when there is none).
SearchBefore(k) ==
  LET S == { j \in 1..(k - 1) : reqLog[j].op = "search" }
  IN IF S = {} THEN 0 ELSE CHOOSE j \in S : \A i \in S : i <= j
\* A step that sends the request for an app description.
SendsDetail ==
  /\ Len(reqLog') = Len(reqLog) + 1
  /\ reqLog'[Len(reqLog')].op = "detail"
\* What holds of the requests sent so far: a submission follows a search
\* that succeeded and, right after it, the description of the submitted app,
\* fetched with success, as every later description of the flow is.
SubmitsFollowDetail ==
  \A k \in Submits :
    LET b == reqLog[k].body
        s == SearchBefore(k)
    IN /\ s > 0
       /\ reqLog[s].status = 200
       /\ \E a \in Catalog : a.id = b.app_id /\ a.system_id = b.system_id
       /\ reqLog[s + 1].op = "detail"
       /\ \A j \in (s + 1)..(k - 1) :
            reqLog[j].op \in {"detail", "version_detail"} =>
              /\ reqLog[j].status = 200
              /\ reqLog[j].target[1] = b.system_id
              /\ reqLog[j].target[2] = b.app_id

\* C27: the description of an app is requested right after a search that
\* succeeded, for the system_id and id of one entry of that search's result;
\* and every submission follows the search of its flow and the description
\* requests made since, all of them successful, and names the app and the
\* system those description requests named.
C27_SubmitAfterSearchAndDetail ==
  [][ /\ SendsDetail =>
          /\ reqLog # <<>>
          /\ reqLog[Len(reqLog)].op = "search"
          /\ reqLog[Len(reqLog)].status = 200
          /\ g.r.status_code = 200
          /\ \E i \in 1..Len(g.r.json.apps) :
               reqLog'[Len(reqLog')].target =
                 <<g.r.json.apps[i].system_id, g.r.json.apps[i].id>>
      /\ SubmitsFollowDetail' ]_vars
C27_Witness ==
  /\ nb = "auto"
  /\ \E k \in Submits :
       /\ reqLog[k].status = 200
       /\ reqLog[k].body.name = <<"terrain-automation-batch">>
       /\ reqLog[k].body.app_id = "app2"
       /\ \E j \in 1..(k - 1) :
            /\ reqLog[j].op = "submit"
            /\ reqLog[j].body.app_id = "app1"

\* The requests that name one analysis: a stop, and a listing filtered by id
\* or by parent_id.
ByAnalysis ==
  { k \in Indices :
      \/ reqLog[k].op = "stop"
      \/ reqLog[k].op = "list" /\ reqLog[k].field \in {"id", "parent_id"} }
\* The number of analyses the service held when the session began.
PriorCount == Len(analyses) - Len(SessionAnalyses)
\* The id the service returned to the accepted submit request k.
ReturnedId(k) == PriorCount + Count({ j \in Accepted : j <= k })

\* C28: a stop request, and a listing filtered by id or by parent_id, names
\* the id that the last submit request before it returned; that request was
\* accepted, the analysis is one the session created, of the app that request
\* named; and no submit request sent before a stop request has failed.
C28_LatestSubmittedId ==
  \A k \in ByAnalysis :
    LET S == { j \in Submits : j < k }
    IN /\ S # {}
       /\ LET m == CHOOSE j \in S : \A i \in S : i <= j
          IN /\ m \in Accepted
             /\ reqLog[k].aid = ReturnedId(m)
             /\ \E i \in 1..Len(SessionAnalyses) :
                  /\ SessionAnalyses[i].id = reqLog[k].aid
                  /\ SessionAnalyses[i].app_id = reqLog[m].body.app_id
       /\ reqLog[k].op = "stop" => S \subseteq Accepted
C28_Witness ==
  /\ PriorCount > 0
  /\ \E k \in ByAnalysis :
       /\ reqLog[k].op = "stop"
       /\ reqLog[k].status = 200
       /\ reqLog[k].aid = PriorCount + 1

====
